---- MODULE Spec2Model ----
(***************************************************************************)
(* A model of muses (src/src/index.ts): the AudioMixer with its channel    *)
(* list, the AudioChannel with its gain stages, track list and fade        *)
(* timers, and the AudioTrack with its single source node.                 *)
(*                                                                         *)
(* Every gain is the value of an AudioParam of the audio engine, a          *)
(* single-precision float.  The gains that are only stored and read back   *)
(* (volume, mute gate, pan, EQ, mixer volume) are whole numbers of units:  *)
(* One units stand for the value 1.0.  The pre-fade input gain, the one    *)
(* gain the program computes with, is read as a JavaScript number (an IEEE *)
(* 754 double, held exactly), computed with as the language computes, and  *)
(* rounded to a float when it is stored.                                   *)
(***************************************************************************)
EXTENDS Integers, Sequences, FiniteSets

VARIABLES
  channels,       \* AudioMixer.channels : the AudioChannel objects, in insertion order
  mixerGainNode,  \* AudioMixer.gainNode.gain.value
  audioTracks,    \* the AudioTrack objects created so far
  fades,          \* the fadeOut / fadeIn calls made so far: timer and promise
  timers,         \* the fades whose interval timer is set, in the order they were set
  ctx,            \* the AudioContext: whether it is rendering, the AudioParam writes not settled,
                  \* and how many writes have raced with the audio thread
  autoId,         \* history: autoId[i] iff channel i got its id from the default
  last,           \* history: the operation performed last, with its result
  mvm             \* history: progress of a muted = true, volume = v, muted = false run

vars == <<channels, mixerGainNode, audioTracks, fades, timers, ctx, autoId, last, mvm>>

----------------------------------------------------------------------------
(* Bounds *)

MaxChannels == 3         \* addChannel calls in the mixer specification
MaxDefaultChannels == 12 \* addChannel calls in the default-id specification
MaxAttachChannels == 2   \* channels in the attach specification
MaxTracks == 2           \* AudioTrack objects created
MaxPropChannels == 1     \* channels in the property specification
MaxFadeChannels == 1     \* channels in the fade specification
MaxFades == 2            \* fadeOut / fadeIn calls made
MaxWiringChannels == 2   \* channels in the wiring specification
MaxFrameChannels == 1    \* channels in the frame specification
MaxFrameFades == 1       \* fadeOut / fadeIn calls in the frame specification
MaxFrameTracks == 1      \* AudioTrack objects in the frame specification
MaxLoneChannels == 1     \* channels in the lone-fade specification
MaxLoneFades == 2        \* fadeOut / fadeIn calls in the lone-fade specification
MaxRaced == 2            \* AudioParam writes that race with the audio thread
MaxFrameRaced == 1       \* the same in the frame specification
MaxLoneRaced == 1        \* the same in the lone-fade specification

(* The gain value 1 of the GainNode constructors, in model units: a unit  *)
(* is 2^-13, the spacing of the floats between 1024 and 2048.             *)
One == 8192
Quarter == One \div 4

(* The step of a fade is ( 2 / ms ) * 10. *)
StepNumerator == 2
StepFactor == 10

(* The duration of a fade called without one. *)
DefaultMs == 2000

----------------------------------------------------------------------------
(* Strings *)

Digit(d) ==
  CASE d = 0 -> "0" [] d = 1 -> "1" [] d = 2 -> "2" [] d = 3 -> "3"
    [] d = 4 -> "4" [] d = 5 -> "5" [] d = 6 -> "6" [] d = 7 -> "7"
    [] d = 8 -> "8" [] d = 9 -> "9"

(* Number.prototype.toString( ) of a non-negative integer: its decimal digits. *)
RECURSIVE ToString(_)
ToString(n) ==
  IF n < 10 THEN Digit(n) ELSE ToString(n \div 10) \o Digit(n % 10)

(* An optional string argument: << >> when it is left out, << s >> when given. *)
Undefined == << >>
Given(s) == << s >>

(* JavaScript's `a || b` on an optional string: undefined and "" are falsy. *)
Falsy(arg) == arg = Undefined \/ arg[1] = ""
OrElse(arg, dflt) == IF Falsy(arg) THEN dflt ELSE arg[1]

----------------------------------------------------------------------------
(* JavaScript numbers *)

(* A number is held exactly as a sign and a magnitude in fixed point: the   *)
(* magnitude << hi, mid, lo >> stands for                                   *)
(*   ( hi * Radix^2 + mid * Radix + lo ) / 2^Scale.                         *)
(* Every double of magnitude between 2^-7 and 2^10 is such a number, and so *)
(* is every sum and difference of two of them.                              *)
Precision == 53   \* significant bits of a double
Scale == 60       \* fraction bits held
LimbBits == 20
Radix == 2^LimbBits

RECURSIVE BitLength(_)
BitLength(n) == IF n = 0 THEN 0 ELSE 1 + BitLength(n \div 2)

(* The magnitude with the carries and borrows of its limbs propagated. *)
Carry(hi, mid, lo) ==
  LET m == mid + lo \div Radix
  IN  <<hi + m \div Radix, m % Radix, lo % Radix>>

(* Round to nearest, ties to even, to Precision significant bits. *)
RoundToPrecision(mag) ==
  LET j == BitLength(mag[1]) - (Precision - 2 * LimbBits)
      s == 2^j
      r == mag[3] % s
      odd == (mag[3] \div s) % 2 = 1
      up == 2 * r > s \/ (2 * r = s /\ odd)
  IN  IF j <= 0 THEN mag
      ELSE Carry(mag[1], mag[2], mag[3] - r + (IF up THEN s ELSE 0))

NoMagnitude == <<0, 0, 0>>

Less(a, b) ==
  \/ a[1] < b[1]
  \/ a[1] = b[1] /\ a[2] < b[2]
  \/ a[1] = b[1] /\ a[2] = b[2] /\ a[3] < b[3]

(* The number with this sign and magnitude; a zero result is +0. *)
Signed(neg, mag) == [neg |-> neg /\ mag # NoMagnitude, mag |-> mag]

(* The number q / One, q a whole number of units. *)
Units(q) ==
  Signed(q < 0, <<(IF q < 0 THEN 0 - q ELSE q) * (2^(Scale - 2 * LimbBits) \div One), 0, 0>>)

(* x + y and x - y of JavaScript: the exact result, rounded. *)
Plus(x, y) ==
  IF x.neg = y.neg
  THEN Signed(x.neg, RoundToPrecision(
         Carry(x.mag[1] + y.mag[1], x.mag[2] + y.mag[2], x.mag[3] + y.mag[3])))
  ELSE IF Less(x.mag, y.mag)
  THEN Signed(y.neg, RoundToPrecision(
         Carry(y.mag[1] - x.mag[1], y.mag[2] - x.mag[2], y.mag[3] - x.mag[3])))
  ELSE Signed(x.neg, RoundToPrecision(
         Carry(x.mag[1] - y.mag[1], x.mag[2] - y.mag[2], x.mag[3] - y.mag[3])))

Minus(x, y) == Plus(x, Signed(~y.neg, y.mag))

(* x <= y *)
AtMost(x, y) ==
  IF x.neg # y.neg THEN x.neg
  ELSE IF x.neg THEN ~Less(x.mag, y.mag)
  ELSE ~Less(y.mag, x.mag)

(* The quotient and the remainder of a magnitude by a small whole number. *)
DivMod(mag, d) ==
  LET r1 == mag[1] % d
      r2 == (r1 * Radix + mag[2]) % d
  IN  [quot |-> <<mag[1] \div d, (r1 * Radix + mag[2]) \div d, (r2 * Radix + mag[3]) \div d>>,
       rem  |-> (r2 * Radix + mag[3]) % d]

(* The least k with ms <= n * 2^k. *)
RECURSIVE MinShift(_, _)
MinShift(n, ms) == IF ms <= n THEN 0 ELSE 1 + MinShift(2 * n, ms)

(* n / ms of JavaScript, n and ms whole numbers with 0 < ms < 2048: the     *)
(* double nearest the quotient, as a mantissa of Precision bits `man` and   *)
(* the number `exp` of fraction bits it has.                                *)
Quotient(n, ms) ==
  LET exp == Precision - 1 + MinShift(n, ms)
      d == DivMod(<<n * 2^(exp - 2 * LimbBits), 0, 0>>, ms)
      up == 2 * d.rem > ms \/ (2 * d.rem = ms /\ d.quot[3] % 2 = 1)
  IN  [man |-> Carry(d.quot[1], d.quot[2], d.quot[3] + (IF up THEN 1 ELSE 0)),
       exp |-> exp]

(* x * f of JavaScript, f a small whole number. *)
Times(x, f) ==
  [man |-> RoundToPrecision(Carry(x.man[1] * f, x.man[2] * f, x.man[3] * f)),
   exp |-> x.exp]

(* The positive double x as a number in fixed point. *)
Fixed(x) ==
  IF x.exp <= Scale
  THEN LET f == 2^(Scale - x.exp)
       IN  Signed(FALSE, Carry(x.man[1] * f, x.man[2] * f, x.man[3] * f))
  ELSE Signed(FALSE, DivMod(x.man, 2^(x.exp - Scale)).quot)

----------------------------------------------------------------------------
(* AudioParam values *)

(* AudioParam.value is a single-precision float: the engine rounds every   *)
(* number stored in it to the nearest float, ties to even, and a read      *)
(* gives the float back as a JavaScript number.                            *)
SinglePrecision == 24   \* significant bits of a float

(* The number of bits of a magnitude, and its bit i (bit 0 the lowest). *)
MagnitudeBits(mag) ==
  IF mag[1] > 0 THEN 2 * LimbBits + BitLength(mag[1])
  ELSE IF mag[2] > 0 THEN LimbBits + BitLength(mag[2])
  ELSE BitLength(mag[3])

Bit(mag, i) == (mag[3 - i \div LimbBits] \div 2^(i % LimbBits)) % 2

(* What rounding the low j bits of the limb x away adds to it: `sticky`    *)
(* when a lower limb is not zero, `odd` when the bit kept last is set.     *)
RoundOff(x, j, sticky, odd) ==
  LET r == x % 2^j
      half == 2^(j - 1)
      up == r > half \/ (r = half /\ (sticky \/ odd))
  IN  (IF up THEN 2^j ELSE 0) - r

(* Round to nearest, ties to even, to SinglePrecision significant bits. *)
RoundToSingle(mag) ==
  LET j == MagnitudeBits(mag) - SinglePrecision
      odd == Bit(mag, j) = 1
  IN  IF j <= 0 THEN mag
      ELSE IF j <= LimbBits
      THEN Carry(mag[1], mag[2], mag[3] + RoundOff(mag[3], j, FALSE, odd))
      ELSE IF j <= 2 * LimbBits
      THEN Carry(mag[1], mag[2] + RoundOff(mag[2], j - LimbBits, mag[3] # 0, odd), 0)
      ELSE Carry(mag[1] + RoundOff(mag[1], j - 2 * LimbBits,
                                   mag[2] # 0 \/ mag[3] # 0, odd), 0, 0)

(* The nominal ranges of the parameters the program writes: the engine  *)
(* keeps a value stored outside the range at the end of the range.  The    *)
(* pan of a StereoPannerNode lies between -1 and 1; the gain of a          *)
(* BiquadFilterNode has the maximum 1541.273681640625, in units below; its *)
(* minimum, and both ends of the gain of a GainNode, are the largest       *)
(* floats, which no number of the model reaches.                           *)
MaxFilterGain == 12626114

Clamped(q, min, max) == IF q < min THEN min ELSE IF q > max THEN max ELSE q

(* The JavaScript number x as stored in an AudioParam and read back (x is  *)
(* evaluated once, as the value v).                                        *)
Stored(x) == CHOOSE r \in {Signed(v.neg, RoundToSingle(v.mag)) : v \in {x}} : TRUE

(* The same for a number of units q / One: the units keep every bit of a   *)
(* float below 2^SinglePrecision units, and above it the float is a whole  *)
(* number of units.                                                        *)
StoredUnits(q) ==
  LET a == IF q < 0 THEN 0 - q ELSE q
      j == BitLength(a) - SinglePrecision
      r == IF j <= 0 THEN a ELSE a + RoundOff(a, j, FALSE, (a \div 2^j) % 2 = 1)
  IN  IF q < 0 THEN 0 - r ELSE r

(* param.value = v.  On an AudioContext that is not rendering the value    *)
(* is there at once.  On one that is rendering, the audio thread reads and *)
(* writes the parameter too, and the write of the program races with it:   *)
(* the parameter reads the value written or still the value it had, and    *)
(* until the audio thread has settled, the other of the two can come in.   *)
(* The outcomes of writing `new` to a parameter that reads `old`: the      *)
(* value it reads afterwards, the value written, whether the write is      *)
(* still unsettled, and the other value if so (`new` is evaluated once, as *)
(* the value v).                                                           *)
Write(old, new) ==
  UNION {
    {[value |-> v, written |-> v, raced |-> FALSE, other |-> v]}
      \cup (IF ctx.rendering /\ v # old
            THEN {[value |-> v, written |-> v, raced |-> TRUE, other |-> old],
                  [value |-> old, written |-> v, raced |-> TRUE, other |-> v]}
            ELSE {})
    : v \in {new} }

(* The parameters of the program: the field `node` of channel c, and the   *)
(* gain of the mixer as the field "gainNode" of channel 0.                 *)
Param(c, node) == <<c, node>>

(* The unsettled writes u without that to parameter p. *)
Settled(u, p) == [q \in DOMAIN u \ {p} |-> u[q]]

(* The context after a write to parameter p with outcome o: the write      *)
(* replaces an unsettled one to p before it.                               *)
Written(p, o) ==
  [ctx EXCEPT !.unsettled =
                 IF o.raced
                 THEN [q \in DOMAIN @ \cup {p} |-> IF q = p THEN o.other ELSE @[q]]
                 ELSE Settled(@, p),
              !.raced = IF o.raced THEN @ + 1 ELSE @]

----------------------------------------------------------------------------
(* Construction *)

(* new AudioChannel( mixer ): the three gain nodes at 1, pan and EQ at 0,    *)
(* no tracks, the output node connected to the gain node of mixer.          *)
NewChannel(mixer) ==
  [ id         |-> "N/A",
    inputNode  |-> Units(One),
    outputNode |-> One,
    gainNode   |-> One,
    stereoPannerNode |-> 0,
    LowEQNode  |-> 0,
    MidEQNode  |-> 0,
    HighEQNode |-> 0,
    tracks     |-> << >>,
    outputs    |-> {mixer} ]

NoOp == [op |-> "new", ch |-> 0, x |-> 0]
NoneUnsettled == [q \in {} |-> 0]
NoRun == [stage |-> 0, ch |-> 0, v |-> 0]

(* new AudioMixer( ): no channels. *)
Init ==
  /\ channels = << >>
  /\ mixerGainNode = One
  /\ audioTracks = << >>
  /\ fades = << >>
  /\ timers = << >>
  /\ ctx \in {[rendering |-> b, unsettled |-> NoneUnsettled, raced |-> 0] : b \in BOOLEAN}
  /\ autoId = << >>
  /\ last = NoOp
  /\ mvm = NoRun

----------------------------------------------------------------------------
(* AudioMixer *)

(* Mutants of ChannelId: the default id off by one, and a default id that  *)
(* does not follow the index.                                               *)
ChannelIdOffByOne(arg) == OrElse(arg, ToString(Len(channels) + 1))
ChannelIdHalved(arg) == OrElse(arg, ToString(Len(channels) \div 2))

(* The id addChannel gives the new channel. *)
ChannelId(arg) == OrElse(arg, ToString(Len(channels)))

AddChannel(arg) ==
  /\ channels' = Append(channels, [NewChannel("mixer") EXCEPT !.id = ChannelId(arg)])
  /\ autoId' = Append(autoId, Falsy(arg))
  /\ last' = [op |-> "addChannel", ch |-> Len(channels) + 1, id |-> arg]
  /\ UNCHANGED <<mixerGainNode, audioTracks, fades, timers, mvm, ctx>>

(* Mutant of FindIndex: the last channel with the id, not the first. *)
FindIndexLast(id) ==
  LET hits == {i \in 1..Len(channels) : channels[i].id = id}
  IN  IF hits = {} THEN -1
      ELSE (CHOOSE i \in hits : \A j \in hits : i >= j) - 1

(* Array.prototype.findIndex: the first 0-based index whose id is `id`, or -1. *)
FindIndex(id) ==
  LET hits == {i \in 1..Len(channels) : channels[i].id = id}
  IN  IF hits = {} THEN -1
      ELSE (CHOOSE i \in hits : \A j \in hits : i <= j) - 1

(* getChannel: the position (from 1) of the channel returned, 0 for null. *)
Null == 0
GetChannelResult(id) ==
  LET i == FindIndex(id)
  IN  IF i + 1 \in DOMAIN channels THEN i + 1 ELSE Null

GetChannel(id) ==
  /\ last' = [op |-> "getChannel", ch |-> GetChannelResult(id), x |-> id]
  /\ UNCHANGED <<channels, mixerGainNode, audioTracks, fades, timers, autoId, mvm, ctx>>

SetMixerVolume(value) ==
  \E o \in Write(mixerGainNode, StoredUnits(value)) :
    /\ mixerGainNode' = o.value
    /\ ctx' = Written(Param(0, "gainNode"), o)
    /\ last' = [op |-> "mixer.volume", ch |-> 0, x |-> value]
    /\ UNCHANGED <<channels, audioTracks, fades, timers, autoId, mvm>>

----------------------------------------------------------------------------
(* AudioTrack and the attach operations of AudioChannel *)

(* The source given to new AudioTrack and to input( ): a string, the URL    *)
(* of the audio, or an HTMLAudioElement of the caller.                      *)
Url(s) == [type |-> "string", name |-> s]
Element(e) == [type |-> "HTMLAudioElement", name |-> e]

(* The element of the track about to be made: for a string, a new element  *)
(* created for this track, with the string as its src; else the element    *)
(* given.                                                                   *)
AudioElement(source) ==
  IF source.type = "string"
  THEN [type |-> "created", name |-> source.name, track |-> Len(audioTracks) + 1]
  ELSE source

(* new AudioTrack( source, ctx ): the element of the source, and a source   *)
(* node disconnected from everything.  sourceNode is the set of channels    *)
(* (positions in `channels`) whose input node the source node feeds.        *)
NewTrack(source) == [audioElement |-> AudioElement(source), sourceNode |-> {}]

(* createMediaElementSource throws InvalidStateError for an element that   *)
(* already has a source node: the element of an AudioTrack made before.    *)
InUse(source) ==
  /\ source.type = "HTMLAudioElement"
  /\ \E t \in DOMAIN audioTracks :
       /\ audioTracks[t].audioElement.type = "HTMLAudioElement"
       /\ audioTracks[t].audioElement = source

(* The constructor of AudioTrack threw: no track is made, nothing changes. *)
Threw(c) ==
  /\ last' = [op |-> "InvalidStateError", ch |-> c, x |-> 0]
  /\ UNCHANGED <<channels, mixerGainNode, audioTracks, fades, timers, autoId, mvm, ctx>>

(* Mutant of Connected: the identity check never finds the track. *)
ConnectedNever(chs, c, t) == -1

(* channel.tracks.findIndex( t => t === this ): the first 0-based index of *)
(* track t in the track list of channel c, or -1.                          *)
Connected(chs, c, t) ==
  LET hits == {i \in 1..Len(chs[c].tracks) : chs[c].tracks[i] = t}
  IN  IF hits = {} THEN -1
      ELSE (CHOOSE i \in hits : \A j \in hits : i <= j) - 1

(* Mutant of Output: the source node is not disconnected before it is      *)
(* connected to the channel.                                                *)
OutputNoDisconnect(chs, trs, c, t) ==
  IF Connected(chs, c, t) # -1
  THEN <<chs, trs>>
  ELSE <<[chs EXCEPT ![c].tracks = Append(@, t)],
         [trs EXCEPT ![t].sourceNode = @ \cup {c}]>>

(* track.output( channel ) on the channels chs and tracks trs: the pair of  *)
(* the channels and the tracks after the call.                              *)
Output(chs, trs, c, t) ==
  IF Connected(chs, c, t) # -1
  THEN <<chs, trs>>
  ELSE <<[chs EXCEPT ![c].tracks = Append(@, t)],
         [trs EXCEPT ![t].sourceNode = {} \cup {c}]>>

(* The channels and tracks become those that track.output( channel ) left. *)
Attached(r) ==
  /\ channels' = r[1]
  /\ audioTracks' = r[2]

(* new AudioTrack( source, ctx ) called by the user of the library. *)
CreateTrack(source) ==
  IF InUse(source) THEN Threw(0)
  ELSE /\ audioTracks' = Append(audioTracks, NewTrack(source))
       /\ last' = [op |-> "newTrack", ch |-> 0, x |-> Len(audioTracks) + 1]
       /\ UNCHANGED <<channels, mixerGainNode, fades, timers, autoId, mvm, ctx>>

(* track.output( channel ) *)
TrackOutput(t, c) ==
  /\ Attached(Output(channels, audioTracks, c, t))
  /\ last' = [op |-> "output", ch |-> c, x |-> t]
  /\ UNCHANGED <<mixerGainNode, fades, timers, autoId, mvm, ctx>>

(* channel.addTrack( track ) *)
AddTrack(c, t) ==
  /\ Attached(Output(channels, audioTracks, c, t))
  /\ last' = [op |-> "addTrack", ch |-> c, x |-> t]
  /\ UNCHANGED <<mixerGainNode, fades, timers, autoId, mvm, ctx>>

(* channel.input( track ) with an AudioTrack: addTrack, the track returned. *)
InputTrack(c, t) ==
  /\ Attached(Output(channels, audioTracks, c, t))
  /\ last' = [op |-> "input", ch |-> c, x |-> t]
  /\ UNCHANGED <<mixerGainNode, fades, timers, autoId, mvm, ctx>>

(* channel.input( source ) with an element or a string: a new track is      *)
(* made from it, added, and returned; when the constructor throws, input   *)
(* throws before it adds anything.                                          *)
InputSource(c, source) ==
  LET trs == Append(audioTracks, NewTrack(source))
      t   == Len(trs)
  IN  IF InUse(source) THEN Threw(c)
      ELSE /\ Attached(Output(channels, trs, c, t))
           /\ last' = [op |-> "inputSource", ch |-> c, x |-> t]
           /\ UNCHANGED <<mixerGainNode, fades, timers, autoId, mvm, ctx>>

(* The attach specification: channels with default ids, tracks made by the *)
(* caller or by input( ), and every way of attaching a track.              *)

Sources == {Url("./my-file.mp3"), Url(""), Element("audio")}

NextAttach ==
  \/ Len(channels) < MaxAttachChannels /\ AddChannel(Undefined)
  \/ \E src \in Sources : Len(audioTracks) < MaxTracks /\ CreateTrack(src)
  \/ \E t \in DOMAIN audioTracks, c \in DOMAIN channels : TrackOutput(t, c)
  \/ \E t \in DOMAIN audioTracks, c \in DOMAIN channels : AddTrack(c, t)
  \/ \E t \in DOMAIN audioTracks, c \in DOMAIN channels : InputTrack(c, t)
  \/ \E src \in Sources, c \in DOMAIN channels :
       Len(audioTracks) < MaxTracks /\ InputSource(c, src)

SpecAttach == Init /\ [][NextAttach]_vars

----------------------------------------------------------------------------
(* The property setters of AudioChannel *)

(* The run "muted = true, volume = v, muted = false" on one channel, as far *)
(* as the volume and muted setters called so far have taken it: stage 1     *)
(* after muted = true, 2 after volume = v, 3 after muted = false.  A volume *)
(* or muted call on the same channel that does not continue the run ends it.*)
RunAfterMuted(c, status) ==
  IF status = TRUE THEN [stage |-> 1, ch |-> c, v |-> 0]
  ELSE IF mvm.ch # c THEN mvm
  ELSE IF mvm.stage = 2 THEN [mvm EXCEPT !.stage = 3]
  ELSE NoRun

RunAfterVolume(c, value) ==
  IF mvm.ch # c THEN mvm
  ELSE IF mvm.stage = 1 THEN [stage |-> 2, ch |-> c, v |-> value]
  ELSE NoRun

(* this.<node>.<param>.value = new in a setter of channel c. *)
SetParam(c, node, new) ==
  \E o \in Write(channels[c][node], new) :
    /\ channels' = [channels EXCEPT ![c][node] = o.value]
    /\ ctx' = Written(Param(c, node), o)

(* set pan( value ) *)
SetPan(c, value) ==
  /\ SetParam(c, "stereoPannerNode", Clamped(StoredUnits(value), 0 - One, One))
  /\ last' = [op |-> "pan", ch |-> c, x |-> value]
  /\ UNCHANGED <<mixerGainNode, audioTracks, fades, timers, autoId, mvm>>

(* Mutant of SetVolume: the volume written to the pre-fade input gain too. *)
SetVolumeOnInput(c, value) ==
  /\ \E o \in Write(channels[c].gainNode, StoredUnits(value)) :
       /\ channels' = [channels EXCEPT ![c].gainNode = o.value,
                                         ![c].inputNode = Stored(Units(value))]
       /\ ctx' = Written(Param(c, "gainNode"), o)
  /\ last' = [op |-> "volume", ch |-> c, x |-> value]
  /\ mvm' = RunAfterVolume(c, value)
  /\ UNCHANGED <<mixerGainNode, audioTracks, fades, timers, autoId>>

(* set volume( value ) *)
SetVolume(c, value) ==
  /\ SetParam(c, "gainNode", StoredUnits(value))
  /\ last' = [op |-> "volume", ch |-> c, x |-> value]
  /\ mvm' = RunAfterVolume(c, value)
  /\ UNCHANGED <<mixerGainNode, audioTracks, fades, timers, autoId>>

(* set lowEQ( value ) *)
SetLowEQ(c, value) ==
  /\ SetParam(c, "LowEQNode", IF StoredUnits(value) > MaxFilterGain
                               THEN MaxFilterGain ELSE StoredUnits(value))
  /\ last' = [op |-> "lowEQ", ch |-> c, x |-> value]
  /\ UNCHANGED <<mixerGainNode, audioTracks, fades, timers, autoId, mvm>>

(* set midEQ( value ) *)
SetMidEQ(c, value) ==
  /\ SetParam(c, "MidEQNode", IF StoredUnits(value) > MaxFilterGain
                               THEN MaxFilterGain ELSE StoredUnits(value))
  /\ last' = [op |-> "midEQ", ch |-> c, x |-> value]
  /\ UNCHANGED <<mixerGainNode, audioTracks, fades, timers, autoId, mvm>>

(* set highEQ( value ) *)
SetHighEQ(c, value) ==
  /\ SetParam(c, "HighEQNode", IF StoredUnits(value) > MaxFilterGain
                                THEN MaxFilterGain ELSE StoredUnits(value))
  /\ last' = [op |-> "highEQ", ch |-> c, x |-> value]
  /\ UNCHANGED <<mixerGainNode, audioTracks, fades, timers, autoId, mvm>>

(* Mutant of SetMuted: muting done on the channel gain, not on the gate. *)
SetMutedOnGain(c, status) ==
  /\ SetParam(c, "gainNode", IF status = TRUE THEN 0 ELSE One)
  /\ last' = [op |-> "muted", ch |-> c, x |-> status]
  /\ mvm' = RunAfterMuted(c, status)
  /\ UNCHANGED <<mixerGainNode, audioTracks, fades, timers, autoId>>

(* set muted( status ) *)
SetMuted(c, status) ==
  /\ SetParam(c, "outputNode", IF status = TRUE THEN 0 ELSE One)
  /\ last' = [op |-> "muted", ch |-> c, x |-> status]
  /\ mvm' = RunAfterMuted(c, status)
  /\ UNCHANGED <<mixerGainNode, audioTracks, fades, timers, autoId>>

(* The tick of a fade timer made last, passing over the steps of the audio *)
(* thread since.                                                           *)
LastTick ==
  IF last.op = "tick" THEN last
  ELSE IF last.op \in {"render", "settle"} THEN last.tick
  ELSE NoOp

(* The audio thread brings the other value of an unsettled write into the  *)
(* parameter p: a write that did not show shows late, or one that showed   *)
(* is overwritten with the value from before it.                           *)
Render(p) ==
  /\ p \in DOMAIN ctx.unsettled
  /\ IF p[1] = 0
     THEN /\ mixerGainNode' = ctx.unsettled[p]
          /\ ctx' = [ctx EXCEPT !.unsettled[p] = mixerGainNode]
          /\ UNCHANGED channels
     ELSE /\ channels' = [channels EXCEPT ![p[1]][p[2]] = ctx.unsettled[p]]
          /\ ctx' = [ctx EXCEPT !.unsettled[p] = channels[p[1]][p[2]]]
          /\ UNCHANGED mixerGainNode
  /\ last' = [op |-> "render", ch |-> p[1], node |-> p[2], tick |-> LastTick]
  /\ UNCHANGED <<audioTracks, fades, timers, autoId, mvm>>

(* The audio thread has settled on the value that parameter p reads: the   *)
(* write has shown for good, or it is lost.                                *)
Settle(p) ==
  /\ p \in DOMAIN ctx.unsettled
  /\ ctx' = [ctx EXCEPT !.unsettled = Settled(@, p)]
  /\ last' = [op |-> "settle", ch |-> p[1], node |-> p[2], tick |-> LastTick]
  /\ UNCHANGED <<channels, mixerGainNode, audioTracks, fades, timers, autoId, mvm>>

(* The parameters of the channels made so far and of the mixer. *)
Params ==
  {Param(0, "gainNode")}
    \cup {Param(c, node) : c \in DOMAIN channels,
                           node \in {"inputNode", "outputNode", "gainNode", "stereoPannerNode",
                                     "LowEQNode", "MidEQNode", "HighEQNode"}}

(* get muted( ) *)
Muted(c) == IF channels[c].outputNode > 0 THEN FALSE ELSE TRUE

(* get volume( ) *)
Volume(c) == channels[c].gainNode

(* The property specification: the volume, muted and pan setters. *)

(* The volumes 0, 0.75, 1.5 and 2048 + 2^-13, which is not a float; the    *)
(* pans -1, 0.5, 1 and 1.5, which is out of the range of the pan.          *)
Volumes == {0, 3 * Quarter, One + 2 * Quarter, 2^SinglePrecision + 1}
Pans == {0 - One, 2 * Quarter, One, One + 2 * Quarter}

NextProps ==
  \/ Len(channels) < MaxPropChannels /\ AddChannel(Undefined)
  \/ \E c \in DOMAIN channels, v \in Volumes : SetVolume(c, v) /\ ctx'.raced <= MaxRaced
  \/ \E c \in DOMAIN channels, b \in BOOLEAN : SetMuted(c, b) /\ ctx'.raced <= MaxRaced
  \/ \E c \in DOMAIN channels, v \in Pans : SetPan(c, v) /\ ctx'.raced <= MaxRaced
  \/ \E p \in Params : Render(p)
  \/ \E p \in Params : Settle(p)

SpecProps == Init /\ [][NextProps]_vars

----------------------------------------------------------------------------
(* The fades of AudioChannel *)

(* The argument of a fadeOut or fadeIn call: a number, a string (of the     *)
(* digits of `value`), or nothing.                                          *)
Num(n) == [type |-> "number", value |-> n]
Str(n) == [type |-> "string", value |-> n]
NoArg == [type |-> "undefined", value |-> 0]

(* Mutant of Ms: a string of digits is read as the number it spells. *)
MsParsed(arg) == IF arg.type = "undefined" THEN DefaultMs ELSE arg.value

(* ms as the promise executor finds it: the default parameter value when    *)
(* the argument is undefined, and 2000 when it is not of type number.       *)
Ms(arg) ==
  LET ms == IF arg.type = "undefined" THEN Num(DefaultMs) ELSE arg
  IN  IF ms.type # "number" THEN DefaultMs ELSE ms.value

(* vpc = ( 2 / ms ) * 10 *)
Vpc(ms) == Fixed(Times(Quotient(StepNumerator, ms), StepFactor))

(* A fadeOut or fadeIn call: its channel, its step, whether its interval    *)
(* timer is set, and the state of the promise it returned.                  *)
NewFade(c, kind, arg) ==
  [channel |-> c, kind |-> kind, arg |-> arg, vpc |-> Vpc(Ms(arg)),
   int |-> TRUE, promise |-> "pending"]

(* fadeOut( ms ): the promise is made and the interval timer set. *)
FadeOut(c, arg) ==
  /\ fades' = Append(fades, NewFade(c, "out", arg))
  /\ timers' = Append(timers, Len(fades) + 1)
  /\ last' = [op |-> "fadeOut", ch |-> c, x |-> Len(fades) + 1]
  /\ UNCHANGED <<channels, mixerGainNode, audioTracks, autoId, mvm, ctx>>

(* fadeIn( ms ) *)
FadeIn(c, arg) ==
  /\ fades' = Append(fades, NewFade(c, "in", arg))
  /\ timers' = Append(timers, Len(fades) + 1)
  /\ last' = [op |-> "fadeIn", ch |-> c, x |-> Len(fades) + 1]
  /\ UNCHANGED <<channels, mixerGainNode, audioTracks, autoId, mvm, ctx>>

(* Mutant of FadeOutCallback: the gain is not set to 0 when the fade ends. *)
FadeOutCallbackNoSnap(value, vpc) ==
  IF AtMost(value, Units(0))
  THEN {[value |-> value, written |-> value, raced |-> FALSE, other |-> value, done |-> TRUE]}
  ELSE {[value |-> w.value, written |-> w.written, raced |-> w.raced, other |-> w.other,
         done |-> FALSE] : w \in Write(value, Stored(Minus(value, vpc)))}

(* The interval callback of fadeOut on the gain `value` read from the      *)
(* AudioParam.  Its outcomes, one for each way its write to the gain can   *)
(* go: the gain the parameter reads after it, and whether it cleared the   *)
(* timer and resolved the promise.                                         *)
FadeOutCallback(value, vpc) ==
  IF AtMost(value, Units(0))
  THEN {[value |-> w.value, written |-> w.written, raced |-> w.raced, other |-> w.other, done |-> TRUE] :
          w \in Write(value, Stored(Units(0)))}
  ELSE {[value |-> w.value, written |-> w.written, raced |-> w.raced, other |-> w.other, done |-> FALSE] :
          w \in Write(value, Stored(Minus(value, vpc)))}

(* The interval callback of fadeIn. *)
FadeInCallback(value, vpc) ==
  IF AtMost(Units(One), value)
  THEN {[value |-> w.value, written |-> w.written, raced |-> w.raced, other |-> w.other, done |-> TRUE] :
          w \in Write(value, Stored(Units(One)))}
  ELSE {[value |-> w.value, written |-> w.written, raced |-> w.raced, other |-> w.other, done |-> FALSE] :
          w \in Write(value, Stored(Plus(value, vpc)))}

(* The timers q without timer f. *)
Without(q, f) == SelectSeq(q, LAMBDA g : g # f)

(* History: how many times the timer of fade f has fired in a row, up to   *)
(* this state.                                                             *)
Run(f) == IF LastTick.op = "tick" /\ LastTick.x = f THEN LastTick.n ELSE 0

(* Mutant of Ticked: the callback writes the channel gain as well. *)
TickedOnGain(f, r) ==
  /\ channels' = [channels EXCEPT ![fades[f].channel].inputNode = r.value,
                                  ![fades[f].channel].gainNode = 0]
  /\ ctx' = Written(Param(fades[f].channel, "inputNode"), r)
  /\ fades' = IF r.done
              THEN [fades EXCEPT ![f].int = FALSE, ![f].promise = "fulfilled"]
              ELSE fades
  /\ timers' = IF r.done THEN Without(timers, f) ELSE timers
  /\ last' = [op |-> "tick", ch |-> fades[f].channel, x |-> f, n |-> Run(f) + 1,
              written |-> r.written]
  /\ UNCHANGED <<mixerGainNode, audioTracks, autoId, mvm>>

(* Mutant of Ticked: the callback resolves the promise but does not clear   *)
(* the interval timer.                                                      *)
TickedNoClear(f, r) ==
  /\ channels' = [channels EXCEPT ![fades[f].channel].inputNode = r.value]
  /\ ctx' = Written(Param(fades[f].channel, "inputNode"), r)
  /\ fades' = IF r.done THEN [fades EXCEPT ![f].promise = "fulfilled"] ELSE fades
  /\ timers' = timers
  /\ last' = [op |-> "tick", ch |-> fades[f].channel, x |-> f, n |-> Run(f) + 1,
              written |-> r.written]
  /\ UNCHANGED <<mixerGainNode, audioTracks, autoId, mvm>>

(* The state after the interval callback of fade f has run with outcome r: *)
(* a timer that was cleared is gone.                                       *)
Ticked(f, r) ==
  /\ channels' = [channels EXCEPT ![fades[f].channel].inputNode = r.value]
  /\ ctx' = Written(Param(fades[f].channel, "inputNode"), r)
  /\ fades' = IF r.done
              THEN [fades EXCEPT ![f].int = FALSE, ![f].promise = "fulfilled"]
              ELSE fades
  /\ timers' = IF r.done THEN Without(timers, f) ELSE timers
  /\ last' = [op |-> "tick", ch |-> fades[f].channel, x |-> f, n |-> Run(f) + 1,
              written |-> r.written]
  /\ UNCHANGED <<mixerGainNode, audioTracks, autoId, mvm>>

(* The timer of a fadeOut call fires. *)
TickOut(f) ==
  /\ f \in DOMAIN fades
  /\ fades[f].kind = "out"
  /\ fades[f].int
  /\ \E r \in FadeOutCallback(channels[fades[f].channel].inputNode, fades[f].vpc) :
       Ticked(f, r)

(* The timer of a fadeIn call fires. *)
TickIn(f) ==
  /\ f \in DOMAIN fades
  /\ fades[f].kind = "in"
  /\ fades[f].int
  /\ \E r \in FadeInCallback(channels[fades[f].channel].inputNode, fades[f].vpc) :
       Ticked(f, r)

(* The fade specification: fades of several durations, started at any time, *)
(* their timers firing in any order.                                        *)

Durations == {10, 40, 80}

NextFade ==
  \/ Len(channels) < MaxFadeChannels /\ AddChannel(Undefined)
  \/ \E c \in DOMAIN channels, ms \in Durations :
       Len(fades) < MaxFades /\ FadeOut(c, Num(ms))
  \/ \E c \in DOMAIN channels, ms \in Durations :
       Len(fades) < MaxFades /\ FadeIn(c, Num(ms))
  \/ \E f \in 1..MaxFades : TickOut(f) /\ ctx'.raced <= MaxRaced
  \/ \E f \in 1..MaxFades : TickIn(f) /\ ctx'.raced <= MaxRaced
  \/ \E p \in Params : Render(p)
  \/ \E p \in Params : Settle(p)

SpecFade == Init /\ [][NextFade]_vars

(* The fade specification with the timers kept going: a timer that is set  *)
(* fires again and again, 2 ms after it fired, whatever the other timers   *)
(* do, and the audio thread keeps rendering.                               *)
FairSpecFade ==
  /\ SpecFade
  /\ \A f \in 1..MaxFades : WF_vars(TickOut(f)) /\ WF_vars(TickIn(f))
  /\ \A p \in {Param(c, "inputNode") : c \in 1..MaxFadeChannels} : WF_vars(Settle(p))

----------------------------------------------------------------------------
(* The output connections of AudioChannel *)

(* The receivers the output node of a channel can be connected to: the gain *)
(* node of the mixer, the destination of the audio context, and some node   *)
(* of the caller.  The field `outputs` of a channel is the set of those it  *)
(* is connected to.                                                         *)
Receivers == {"mixer", "destination", "node"}

(* connect( node ) *)
Connect(c, node) ==
  /\ channels' = [channels EXCEPT ![c].outputs = @ \cup {node}]
  /\ last' = [op |-> "connect", ch |-> c, x |-> node]
  /\ UNCHANGED <<mixerGainNode, audioTracks, fades, timers, autoId, mvm, ctx>>

(* disconnect( node? ): from the node given, or from all receivers when no  *)
(* node is given.  (The engine throws when the node given is not connected; *)
(* the connections are then as they were.)                                  *)
Disconnect(c, arg) ==
  /\ channels' = [channels EXCEPT
                    ![c].outputs = IF arg # Undefined THEN @ \ {arg[1]} ELSE {}]
  /\ last' = [op |-> "disconnect", ch |-> c, x |-> arg]
  /\ UNCHANGED <<mixerGainNode, audioTracks, fades, timers, autoId, mvm, ctx>>

(* connectToContext( ) *)
ConnectToContext(c) ==
  /\ channels' = [channels EXCEPT ![c].outputs = @ \cup {"destination"}]
  /\ last' = [op |-> "connectToContext", ch |-> c, x |-> 0]
  /\ UNCHANGED <<mixerGainNode, audioTracks, fades, timers, autoId, mvm, ctx>>

(* Mutant of DisconnectFromContext: disconnects from all receivers. *)
DisconnectFromContextAll(c) ==
  /\ channels' = [channels EXCEPT ![c].outputs = {}]
  /\ last' = [op |-> "disconnectFromContext", ch |-> c, x |-> 0]
  /\ UNCHANGED <<mixerGainNode, audioTracks, fades, timers, autoId, mvm, ctx>>

(* disconnectFromContext( ) *)
DisconnectFromContext(c) ==
  /\ channels' = [channels EXCEPT ![c].outputs = @ \ {"destination"}]
  /\ last' = [op |-> "disconnectFromContext", ch |-> c, x |-> 0]
  /\ UNCHANGED <<mixerGainNode, audioTracks, fades, timers, autoId, mvm, ctx>>

(* The wiring specification: every connect and disconnect operation. *)

DisconnectArgs == {Undefined} \cup {Given(n) : n \in Receivers}

NextWiring ==
  \/ Len(channels) < MaxWiringChannels /\ AddChannel(Undefined)
  \/ \E c \in DOMAIN channels, n \in Receivers : Connect(c, n)
  \/ \E c \in DOMAIN channels, arg \in DisconnectArgs : Disconnect(c, arg)
  \/ \E c \in DOMAIN channels : ConnectToContext(c)
  \/ \E c \in DOMAIN channels : DisconnectFromContext(c)

SpecWiring == Init /\ [][NextWiring]_vars

----------------------------------------------------------------------------
(* The mixer specification: channels added with explicit and default ids. *)

IdArgs == {Undefined, Given(""), Given("0"), Given("1"), Given("a")}
QueryIds == {"0", "1", "2", "a", "missing"}
MixerVolumes == {0, One, 2^SinglePrecision + 1}   \* the last is not a float

NextMixer ==
  \/ \E arg \in IdArgs : Len(channels) < MaxChannels /\ AddChannel(arg)
  \/ \E id \in QueryIds : GetChannel(id)
  \/ \E v \in MixerVolumes : SetMixerVolume(v) /\ ctx'.raced <= MaxRaced
  \/ \E p \in Params : Render(p)
  \/ \E p \in Params : Settle(p)

SpecMixer == Init /\ [][NextMixer]_vars

(* The default-id specification: addChannel( ) is only called without an id. *)

DefaultQueryIds == {ToString(n) : n \in 0..MaxDefaultChannels} \cup {"missing"}

NextDefault ==
  \/ Len(channels) < MaxDefaultChannels /\ AddChannel(Undefined)
  \/ \E id \in DefaultQueryIds : GetChannel(id)

SpecDefault == Init /\ [][NextDefault]_vars

----------------------------------------------------------------------------
(* The frame specification: a fade set against the other                   *)
(* operations on a channel: the property setters, attaching a track, and   *)
(* connecting and disconnecting the output.                                *)

FrameDurations == {40}
FrameSources == {Url("./my-file.mp3")}
FrameVolumes == {3 * Quarter}
FramePans == {0 - Quarter}
FrameEQs == {2 * Quarter}
FrameMixerVolumes == {0}
FrameMidEQs == {2000 * One}   \* above the maximum of the filter gain

NextFrame ==
  \/ Len(channels) < MaxFrameChannels /\ AddChannel(Undefined)
  \/ \E c \in DOMAIN channels, ms \in FrameDurations :
       timers = << >> /\ Len(fades) < MaxFrameFades /\ FadeOut(c, Num(ms))
  \/ \E c \in DOMAIN channels, ms \in FrameDurations :
       timers = << >> /\ Len(fades) < MaxFrameFades /\ FadeIn(c, Num(ms))
  \/ \E f \in 1..MaxFrameFades : TickOut(f) /\ ctx'.raced <= MaxFrameRaced
  \/ \E f \in 1..MaxFrameFades : TickIn(f) /\ ctx'.raced <= MaxFrameRaced
  \/ \E c \in DOMAIN channels, v \in FrameVolumes : SetVolume(c, v) /\ ctx'.raced <= MaxFrameRaced
  \/ \E c \in DOMAIN channels, status \in BOOLEAN : SetMuted(c, status) /\ ctx'.raced <= MaxFrameRaced
  \/ \E c \in DOMAIN channels, v \in FramePans : SetPan(c, v) /\ ctx'.raced <= MaxFrameRaced
  \/ \E c \in DOMAIN channels, v \in FrameEQs : SetLowEQ(c, v) /\ ctx'.raced <= MaxFrameRaced
  \/ \E c \in DOMAIN channels, v \in FrameMidEQs : SetMidEQ(c, v) /\ ctx'.raced <= MaxFrameRaced
  \/ \E c \in DOMAIN channels, v \in FrameEQs : SetHighEQ(c, v) /\ ctx'.raced <= MaxFrameRaced
  \/ \E v \in FrameMixerVolumes : SetMixerVolume(v) /\ ctx'.raced <= MaxFrameRaced
  \/ \E s \in FrameSources : Len(audioTracks) < MaxFrameTracks /\ CreateTrack(s)
  \/ \E c \in DOMAIN channels, t \in DOMAIN audioTracks : AddTrack(c, t)
  \/ \E c \in DOMAIN channels : Connect(c, "destination")
  \/ \E c \in DOMAIN channels : Disconnect(c, Given("destination"))
  \/ \E p \in Params : Render(p)
  \/ \E p \in Params : Settle(p)

SpecFrame == Init /\ [][NextFrame]_vars

----------------------------------------------------------------------------
(* The lone-fade specification: the channels are made first, and a fade is *)
(* called when no fade timer is set, with a duration that is a number, a   *)
(* string, or left out.                                                    *)

LoneArgs == {Num(40), Num(100), Num(DefaultMs), Str(500), NoArg}

NextLone ==
  \/ fades = << >> /\ Len(channels) < MaxLoneChannels /\ AddChannel(Undefined)
  \/ \E c \in DOMAIN channels, arg \in LoneArgs :
       timers = << >> /\ Len(fades) < MaxLoneFades /\ FadeOut(c, arg)
  \/ \E c \in DOMAIN channels, arg \in LoneArgs :
       timers = << >> /\ Len(fades) < MaxLoneFades /\ FadeIn(c, arg)
  \/ \E f \in 1..MaxLoneFades : TickOut(f) /\ ctx'.raced <= MaxLoneRaced
  \/ \E f \in 1..MaxLoneFades : TickIn(f) /\ ctx'.raced <= MaxLoneRaced
  \/ \E p \in Params : Render(p)
  \/ \E p \in Params : Settle(p)

SpecLone == Init /\ [][NextLone]_vars

----------------------------------------------------------------------------
(* Every operation together. *)

Next ==
  \/ NextMixer
  \/ NextAttach
  \/ NextProps
  \/ NextFade
  \/ NextWiring
  \/ NextFrame
  \/ NextLone

Spec == Init /\ [][Next]_vars

----------------------------------------------------------------------------
(* Claims about the mixer *)

(* The decimal strings of 0, 1, 2, ..., written out. *)
Decimals ==
  << "0", "1", "2", "3", "4", "5", "6", "7", "8", "9", "10", "11", "12",
     "13", "14", "15", "16" >>

OnlyDefaultIds == \A i \in DOMAIN channels : autoId[i]

(* C9: on a mixer where addChannel was only ever called without an id, the   *)
(* n-th channel (from 0) has the decimal string of n as its id, getChannel  *)
(* of that string returns that very channel, and a getChannel call just     *)
(* made with that string has returned it.                                   *)
C9_DefaultIds ==
  OnlyDefaultIds =>
    \A n \in 0..(Len(channels) - 1) :
      /\ channels[n + 1].id = Decimals[n + 1]
      /\ GetChannelResult(Decimals[n + 1]) = n + 1
      /\ (last.op = "getChannel" /\ last.x = Decimals[n + 1]) => last.ch = n + 1

(* Twelve channels were added by default and getChannel( "11" ) returned the *)
(* twelfth.                                                                  *)
C9_Witness ==
  /\ Len(channels) >= 12
  /\ OnlyDefaultIds
  /\ last.op = "getChannel" /\ last.x = "11" /\ last.ch = 12

(* C10 as stated: the ids of one mixer's channels are pairwise distinct. *)
C10_IdsDistinct ==
  \A i, j \in DOMAIN channels : i # j => channels[i].id # channels[j].id

(* C10 amended: the ids of the channels that got the default id are pairwise *)
(* distinct; an id given by the caller may repeat another id.                *)
C10_AutoIdsDistinct ==
  \A i, j \in DOMAIN channels :
    (i # j /\ autoId[i] /\ autoId[j]) => channels[i].id # channels[j].id

(* Two channels got the default id, and a third, with an id given by the    *)
(* caller, repeats the id of one of them.                                   *)
C10_Witness ==
  /\ \E i, j \in DOMAIN channels : i # j /\ autoId[i] /\ autoId[j]
  /\ \E i, j \in DOMAIN channels :
       i # j /\ ~autoId[i] /\ channels[i].id = channels[j].id

----------------------------------------------------------------------------
(* Claims about attaching tracks *)

AttachOps == {"output", "addTrack", "input"}

(* The number of times track t occurs in the track list of channel c. *)
Occurrences(c, t) ==
  Cardinality({i \in 1..Len(channels[c].tracks) : channels[c].tracks[i] = t})

NoTrackTwice ==
  \A c \in DOMAIN channels : \A t \in DOMAIN audioTracks : Occurrences(c, t) <= 1

(* A step that attaches a track to a channel whose list already holds it. *)
Reattach ==
  /\ last'.op \in AttachOps
  /\ last'.ch \in DOMAIN channels
  /\ Occurrences(last'.ch, last'.x) >= 1

(* C6: attaching a track (output, addTrack or input) to a channel whose     *)
(* track list already holds it leaves every track list as it was, and no   *)
(* track list ever holds the same track twice.                             *)
C6_IdempotentAttach ==
  /\ [][Reattach => channels' = channels]_vars
  /\ []NoTrackTwice

(* A track was attached again to a channel that already held it, next to    *)
(* another track: the list has two tracks, each once.                       *)
C6_Witness ==
  /\ last.op \in AttachOps
  /\ Len(channels[last.ch].tracks) = 2
  /\ channels[last.ch].tracks[1] = last.x
  /\ NoTrackTwice

(* C7 as stated: each track is in the track list of at most one channel. *)
C7_AtMostOneChannel ==
  \A t \in DOMAIN audioTracks :
    Cardinality({c \in DOMAIN channels : Connected(channels, c, t) # -1}) <= 1

----------------------------------------------------------------------------
(* Claims about the property setters *)

(* Channel d is the same before and after the step but for field `f`.      *)
SameBut(d, f) ==
  \A k \in DOMAIN channels[d] : k # f => channels'[d][k] = channels[d][k]

(* A muted step sets the output gate to 0 or 1 and nothing else. *)
MutedFrame ==
  last'.op = "muted" =>
    /\ channels'[last'.ch].outputNode = (IF last'.x THEN 0 ELSE One)
    /\ channels'[last'.ch].gainNode = channels[last'.ch].gainNode
    /\ \A d \in DOMAIN channels :
         IF d = last'.ch THEN SameBut(d, "outputNode") ELSE channels'[d] = channels[d]
    /\ UNCHANGED <<mixerGainNode, audioTracks, fades, timers>>

(* A volume step sets the channel gain to the value given and nothing else. *)
VolumeFrame ==
  last'.op = "volume" =>
    /\ channels'[last'.ch].gainNode = last'.x
    /\ channels'[last'.ch].outputNode = channels[last'.ch].outputNode
    /\ \A d \in DOMAIN channels :
         IF d = last'.ch THEN SameBut(d, "gainNode") ELSE channels'[d] = channels[d]
    /\ UNCHANGED <<mixerGainNode, audioTracks, fades, timers>>

(* C8 as stated: setting muted changes only the output gate (0 for true, 1  *)
(* for false) and leaves the channel gain; setting volume changes only the  *)
(* channel gain and leaves the gate; and after muted = true, volume = v,    *)
(* muted = false the gate is 1, the channel reads unmuted and its volume    *)
(* reads v, for every v.                                                    *)
C8_MuteVolumeIndependent ==
  /\ [][MutedFrame /\ VolumeFrame]_vars
  /\ [](mvm.stage = 3 =>
         /\ channels[mvm.ch].outputNode = One
         /\ Muted(mvm.ch) = FALSE
         /\ Volume(mvm.ch) = mvm.v)

(* The value the step wrote to field `f` of its channel is there, or the   *)
(* field reads as before, the write having raced with the audio thread; on *)
(* a context that is not rendering it is there.                            *)
WroteOnly(f, v) ==
  /\ channels'[last'.ch][f] \in {v, channels[last'.ch][f]}
  /\ ~ctx.rendering => channels'[last'.ch][f] = v
  /\ \A d \in DOMAIN channels :
       IF d = last'.ch THEN SameBut(d, f) ELSE channels'[d] = channels[d]
  /\ UNCHANGED <<mixerGainNode, audioTracks, fades, timers>>

MutedStoredFrame ==
  last'.op = "muted" => WroteOnly("outputNode", IF last'.x THEN 0 ELSE One)

VolumeStoredFrame ==
  last'.op = "volume" => WroteOnly("gainNode", StoredUnits(last'.x))

(* C8 amended: setting muted writes only the output gate (0 for true, 1    *)
(* for false) and leaves the channel gain; setting volume writes only the  *)
(* channel gain, the single-precision float nearest the value given, and   *)
(* leaves the gate.  On a context that is not rendering the value written  *)
(* is there at once, and after muted = true, volume = v, muted = false the *)
(* gate is 1, the channel reads unmuted and its volume reads the float     *)
(* nearest v, which is v when v is a float.  On a rendering context the    *)
(* parameter reads the value written or still the value it had.            *)
C8_MuteVolumeStored ==
  /\ [][MutedStoredFrame /\ VolumeStoredFrame]_vars
  /\ []((mvm.stage = 3 /\ ~ctx.rendering) =>
         /\ channels[mvm.ch].outputNode = One
         /\ Muted(mvm.ch) = FALSE
         /\ Volume(mvm.ch) = StoredUnits(mvm.v)
         /\ (StoredUnits(mvm.v) = mvm.v => Volume(mvm.ch) = mvm.v))

(* muted = true, volume = 2048 + 2^-13, muted = false has just been run on  *)
(* a channel: its volume reads 2048.                                        *)
C8_Witness ==
  /\ mvm.stage = 3
  /\ mvm.v = 2^SinglePrecision + 1
  /\ last.op = "muted" /\ last.x = FALSE /\ last.ch = mvm.ch
  /\ channels[mvm.ch].gainNode = 2^SinglePrecision

(* muted = true, volume = 3/4, muted = false has just been run: the volume *)
(* reads 3/4.                                                               *)
C8_WitnessExact ==
  /\ mvm.stage = 3
  /\ mvm.v = 3 * Quarter
  /\ last.op = "muted" /\ last.x = FALSE /\ last.ch = mvm.ch
  /\ channels[mvm.ch].gainNode = 3 * Quarter

----------------------------------------------------------------------------
(* Claims about fades *)

(* The gain a fade of the given kind ends at. *)
Boundary(kind) == IF kind = "out" THEN Units(0) ELSE Units(One)

(* The last step was the timer tick that resolved the promise of a fade. *)
JustResolved ==
  /\ last.op = "tick"
  /\ fades[last.x].promise = "fulfilled"

ReadsOrAwaits(chs, c, p, b) ==
  \/ chs[p[1]][p[2]] = b
  \/ c.rendering /\ p \in DOMAIN c.unsettled /\ c.unsettled[p] = b

ActiveFades(c) == {f \in DOMAIN fades : fades[f].channel = c /\ fades[f].int}

(* C2 as stated: at most one fade timer per channel is set. *)
C2_SingleFadePerChannel ==
  \A c \in DOMAIN channels : Cardinality(ActiveFades(c)) <= 1

(* C3 as stated: while a fadeOut is active on a channel, from its call to   *)
(* the tick that resolves it, the gain of the channel never goes up, and    *)
(* while a fadeIn is active it never goes down.                             *)
C3_Monotone ==
  [][\A f \in DOMAIN fades :
       fades[f].int =>
         LET c == fades[f].channel
         IN  IF fades[f].kind = "out"
             THEN AtMost(channels'[c].inputNode, channels[c].inputNode)
             ELSE AtMost(channels[c].inputNode, channels'[c].inputNode)]_vars

(* Fade call f has been made, and its promise is resolved / is rejected. *)
Called(f) == f \in DOMAIN fades
Fulfilled(f) == Called(f) /\ fades[f].promise = "fulfilled"
Rejected(f) == Called(f) /\ fades[f].promise = "rejected"

(* C4 as stated: under fair timers every fade call eventually resolves its  *)
(* promise, and none is rejected.                                           *)
C4_EveryFadeResolves ==
  \A f \in 1..MaxFades :
    /\ [](Called(f) => <>Fulfilled(f))
    /\ []~Rejected(f)

(* C5 as stated: the pre-fade input gain is always between 0 and 1. *)
C5_GainInRange ==
  \A c \in DOMAIN channels :
    /\ AtMost(Units(0), channels[c].inputNode)
    /\ AtMost(channels[c].inputNode, Units(One))

----------------------------------------------------------------------------
(* More claims about the mixer *)

(* The channels, in insertion order, whose id is `id`. *)
WithId(id) == {i \in DOMAIN channels : channels[i].id = id}

(* C11: getChannel( id ) returns the earliest-inserted channel whose id is  *)
(* id, returns null when no channel has that id, and leaves the channel     *)
(* list (and everything else of the mixer) as it was.                       *)
C11_GetChannelFirstMatch ==
  /\ [](last.op = "getChannel" =>
         IF WithId(last.x) = {}
         THEN last.ch = Null
         ELSE /\ last.ch \in WithId(last.x)
              /\ \A j \in WithId(last.x) : last.ch <= j)
  /\ [][last'.op = "getChannel" =>
          UNCHANGED <<channels, mixerGainNode, audioTracks, fades, timers, ctx>>]_vars

(* getChannel has returned the first of two channels with one id, and on    *)
(* another mixer state it has returned null for an id no channel has.       *)
C11_Witness ==
  /\ last.op = "getChannel"
  /\ Cardinality(WithId(last.x)) >= 2
  /\ last.ch = 1

C11_WitnessMissing ==
  /\ last.op = "getChannel"
  /\ Len(channels) >= 2
  /\ WithId(last.x) = {}
  /\ last.ch = Null

----------------------------------------------------------------------------
(* Claims about the output connections *)

Wired(c) == "mixer" \in channels[c].outputs

(* C14 as stated: the output node of every channel is connected to the gain *)
(* node of its mixer, whatever connect and disconnect calls were made.      *)
C14_AlwaysWired == \A c \in DOMAIN channels : Wired(c)

(* The step is a disconnect( ) of channel c from all receivers, or a        *)
(* disconnect( node ) of it from the gain node of the mixer.                *)
Detaches(c) ==
  /\ last'.op = "disconnect"
  /\ last'.ch = c
  /\ last'.x \in {Undefined, Given("mixer")}

(* C14 amended: a channel is connected to the gain node of its mixer when   *)
(* it is made, and connect, connectToContext, disconnectFromContext and     *)
(* disconnect( node ) of any other node leave it connected; only            *)
(* disconnect( ) without a node, or of the mixer's gain node, detaches it.  *)
C14_WiredUntilDetached ==
  [][/\ last'.op = "addChannel" => "mixer" \in channels'[last'.ch].outputs
     /\ \A c \in DOMAIN channels :
          (Wired(c) /\ ~Detaches(c)) => "mixer" \in channels'[c].outputs]_vars

(* A channel connected to the context and to a node of the caller has been  *)
(* disconnected from that node, and is still connected to its mixer.        *)
C14_Witness ==
  /\ last.op = "disconnect"
  /\ last.x = Given("node")
  /\ channels[last.ch].outputs = {"mixer", "destination"}

----------------------------------------------------------------------------
(* Claims about the output port of a track *)

AllAttachOps == AttachOps \cup {"inputSource"}

(* The step attaches a track to a channel whose track list does not hold it. *)
FreshAttach ==
  /\ last'.op \in AllAttachOps
  /\ \/ last'.x \notin DOMAIN audioTracks
     \/ Occurrences(last'.ch, last'.x) = 0

(* C17: the source node of a track is connected to the input of at most one *)
(* channel, and attaching the track to a channel whose track list does not  *)
(* hold it leaves the source node connected to that channel only.           *)
C17_SinglePort ==
  /\ [](\A t \in DOMAIN audioTracks : Cardinality(audioTracks[t].sourceNode) <= 1)
  /\ [][FreshAttach => audioTracks'[last'.x].sourceNode = {last'.ch}]_vars

(* A track that is in the track list of channel 1 has been attached to      *)
(* channel 2, and its source node is connected to channel 2 only.           *)
C17_Witness ==
  /\ last.op \in AttachOps
  /\ last.ch = 2
  /\ Occurrences(1, last.x) = 1
  /\ channels[2].tracks[Len(channels[2].tracks)] = last.x
  /\ audioTracks[last.x].sourceNode = {2}

(* C18 as stated: when an attach call on channel C returns, the source node *)
(* of the track is connected to the input of C and the track is in the      *)
(* track list of C; and every track in a track list has its source node     *)
(* connected to that channel.                                               *)
C18_AttachedIsConnected ==
  /\ last.op \in AllAttachOps =>
       /\ last.ch \in audioTracks[last.x].sourceNode
       /\ Occurrences(last.ch, last.x) >= 1
  /\ \A c \in DOMAIN channels : \A i \in DOMAIN channels[c].tracks :
       c \in audioTracks[channels[c].tracks[i]].sourceNode

----------------------------------------------------------------------------
(* Claims about the end of a fade *)

(* The gain v is at or past the boundary of a fade of this kind. *)
AtOrPast(kind, v) ==
  IF kind = "out" THEN AtMost(v, Units(0)) ELSE AtMost(Units(One), v)

(* The step is a tick of the timer of fade f. *)
TickOf(f) == last'.op = "tick" /\ last'.x = f

----------------------------------------------------------------------------
(* Frame claims: what writes the pre-fade input gain, and what a fade writes *)

(* The values the pre-fade input gain of channel c reads or may still come *)
(* to read without a call: its value and that of an unsettled write to it. *)
InputValues(chs, u, c) ==
  {chs[c].inputNode}
    \cup {u[p] : p \in {q \in DOMAIN u : q = Param(c, "inputNode")}}

(* The step is one of the audio thread on a pre-fade input gain. *)
AudioOnInput == last'.op \in {"render", "settle"} /\ last'.node = "inputNode"

(* C12: nothing but the tick of a fade timer writes the pre-fade input      *)
(* gain.  A step that is not a tick (the volume, muted, pan, lowEQ, midEQ   *)
(* and highEQ setters, attaching a track, connect and disconnect, starting  *)
(* a fade, the mixer volume) leaves the gain of every channel unchanged and *)
(* leaves no write to it behind; the only other step that changes the gain  *)
(* is the audio thread settling the write of an earlier tick, which brings  *)
(* in no value but the one the tick wrote or the one the gain had.          *)
C12_OnlyTicksWriteInput ==
  [][last'.op # "tick" =>
       \A c \in DOMAIN channels :
         IF AudioOnInput
         THEN InputValues(channels', ctx'.unsettled, c)
                \subseteq InputValues(channels, ctx.unsettled, c)
         ELSE /\ channels'[c].inputNode = channels[c].inputNode
              /\ InputValues(channels', ctx'.unsettled, c)
                   = InputValues(channels, ctx.unsettled, c)]_vars

(* The volume was set on a channel in the middle of a fadeOut, and the gain *)
(* of the fade is where the last tick left it.                              *)
C12_Witness ==
  /\ last.op = "volume"
  /\ channels[last.ch].gainNode = 3 * Quarter
  /\ channels[last.ch].inputNode = Units(2 * Quarter)
  /\ \E f \in ActiveFades(last.ch) : fades[f].kind = "out"

(* C13: a tick of a fade timer, the resolving one included, leaves the      *)
(* volume, pan, lowEQ, midEQ, highEQ, muted, track list and connections of  *)
(* every channel, the tracks and the volume of the mixer unchanged, and the *)
(* writes to them that are not settled; it writes the pre-fade input     *)
(* gain of its channel only.                                                *)
C13_FadeWritesInputOnly ==
  [][last'.op = "tick" =>
       /\ \A c \in DOMAIN channels :
            /\ Volume(c)' = Volume(c)
            /\ Muted(c)' = Muted(c)
            /\ IF c = last'.ch THEN SameBut(c, "inputNode")
               ELSE channels'[c] = channels[c]
       /\ \A p \in (DOMAIN ctx.unsettled \cup DOMAIN ctx'.unsettled)
                   \ {Param(last'.ch, "inputNode")} :
            /\ p \in DOMAIN ctx.unsettled /\ p \in DOMAIN ctx'.unsettled
            /\ ctx'.unsettled[p] = ctx.unsettled[p]
       /\ UNCHANGED <<mixerGainNode, audioTracks>>]_vars

(* A fadeOut has just resolved, having brought the gain down to 0, on a    *)
(* muted channel with a track, whose volume, pan and EQ were set before.    *)
C13_Witness ==
  /\ JustResolved
  /\ fades[last.x].kind = "out"
  /\ last.n = 3
  /\ channels[last.ch].inputNode = Units(0)
  /\ Volume(last.ch) = 3 * Quarter
  /\ Muted(last.ch)
  /\ channels[last.ch].stereoPannerNode = 0 - Quarter
  /\ channels[last.ch].LowEQNode = 2 * Quarter
  /\ channels[last.ch].MidEQNode = MaxFilterGain
  /\ channels[last.ch].HighEQNode = 2 * Quarter
  /\ channels[last.ch].tracks # << >>
  /\ mixerGainNode = 0

----------------------------------------------------------------------------
(* Claims about the duration of a fade *)

NonNumeric(arg) == arg.type # "number"

(* The interval callback of a fade of this kind. *)
Callback(kind, value, vpc) ==
  IF kind = "out" THEN FadeOutCallback(value, vpc) ELSE FadeInCallback(value, vpc)

(* C15: a fadeOut or fadeIn call whose duration is not a number makes the   *)
(* promise and the timer that the call with duration 2000 makes, its        *)
(* promise is never rejected, and every tick of its timer does to the gain  *)
(* and to the promise what the tick of a fade of duration 2000 can do: the  *)
(* same step, the same gain values, resolved on the same tick.              *)
C15_NonNumericIsDefault ==
  /\ [](\A f \in DOMAIN fades :
          NonNumeric(fades[f].arg) =>
            /\ fades[f].vpc = Vpc(DefaultMs)
            /\ fades[f].promise \in {"pending", "fulfilled"})
  /\ [][\A f \in DOMAIN fades' :
          /\ (f \notin DOMAIN fades /\ NonNumeric(fades'[f].arg)) =>
               [fades'[f] EXCEPT !.arg = Num(DefaultMs)]
                 = NewFade(fades'[f].channel, fades'[f].kind, Num(DefaultMs))
          /\ (f \in DOMAIN fades /\ NonNumeric(fades[f].arg) /\ TickOf(f)) =>
               LET c == fades[f].channel
               IN  \E r \in Callback(fades[f].kind, channels[c].inputNode, Vpc(DefaultMs)) :
                     /\ channels'[c].inputNode = r.value
                     /\ ctx' = Written(Param(c, "inputNode"), r)
                     /\ (fades'[f].promise = "fulfilled") = r.done]_vars

(* A fadeOut called with the string "500" has just resolved, on tick 102 of *)
(* its timer, as a fadeOut of 2000 ms from the gain 1 does.                 *)
C15_Witness ==
  /\ JustResolved
  /\ fades[last.x].kind = "out"
  /\ fades[last.x].arg = Str(500)
  /\ last.n = 102
  /\ channels[last.ch].inputNode = Units(0)

(* The fades of the channel of fade f called before it. *)
Earlier(f) == {g \in 1..(f - 1) : fades[g].channel = fades[f].channel}

(* In the lone-fade specification, the gain fade f started from, in         *)
(* units:    1 on a new channel, and after a fade the boundary of that fade. *)
StartGain(f) ==
  IF Earlier(f) = {} THEN One
  ELSE LET g == CHOOSE g \in Earlier(f) : \A h \in Earlier(f) : h <= g
       IN  IF fades[g].kind = "out" THEN 0 ELSE One

Ceiling(a, b) == (a + b - 1) \div b

(* The tick on which C19 has a lone fade resolve: ceil( g * d / 20 ) + 1    *)
(* for a fadeOut of d ms from the gain g, ceil( ( 1 - g ) * d / 20 ) + 1    *)
(* for a fadeIn.                                                            *)
ResolvingTick(kind, g, d) ==
  Ceiling((IF kind = "out" THEN g ELSE One - g) * d, StepNumerator * StepFactor * One) + 1

(* C19 as stated, for the lone fades of the lone-fade specification: a tick *)
(* that finds the gain short of the boundary moves it by the step of the    *)
(* fade, down for a fadeOut and up for a fadeIn; a fade started at its      *)
(* boundary is pending after the call and resolves on its first tick with   *)
(* the gain unchanged; and every fade resolves on the tick numbered         *)
(* ceil( g * d / 20 ) + 1, or ceil( ( 1 - g ) * d / 20 ) + 1 for a fadeIn.  *)
C19_TickCount ==
  /\ [][\A f \in DOMAIN fades :
          TickOf(f) =>
            LET c == fades[f].channel
                step == Vpc(Ms(fades[f].arg))
            IN  IF AtOrPast(fades[f].kind, channels[c].inputNode)
                THEN Run(f) = 0 => channels'[c].inputNode = channels[c].inputNode
                ELSE channels'[c].inputNode =
                       (IF fades[f].kind = "out"
                        THEN Minus(channels[c].inputNode, step)
                        ELSE Plus(channels[c].inputNode, step))]_vars
  /\ [](last.op \in {"fadeOut", "fadeIn"} => fades[last.x].promise = "pending")
  /\ [](JustResolved =>
          last.n = ResolvingTick(fades[last.x].kind, StartGain(last.x), Ms(fades[last.x].arg)))

====
